---- MODULE Spec2Model ----
(***************************************************************************)
(* The bridge relayer of src/script.py: BridgeEventListener.listen, the    *)
(* per-event pipeline _process_event / _validate_with_oracle /             *)
(* _initiate_destination_chain_action, and the external collaborators      *)
(* (the source chain node, the oracle) as nondeterministic inputs.         *)
(***************************************************************************)
EXTENDS Integers, Sequences, FiniteSets, TLC

\* ------------------------------------------------------------------ bounds
MaxHeight == 3      \* heights the source chain reports: 0..MaxHeight
MaxBatch == 2       \* logs one get_logs call returns: 0..MaxBatch
MaxCycles == 3      \* scan cycles (iterations of `while True`) explored
MaxRange == 1       \* block_range values explored: 1..MaxRange

\* ------------------------------------------------------- program constants
poll_interval == 15             \* listen(poll_interval: int = 15)
oracle_url_configured == TRUE   \* CONFIG["oracle_api"]["url"] is non-empty

Heights == 0 .. MaxHeight
\* the transaction hashes the source chain's logs carry
TxHashes == {"0xabc", "0xdef"}

VARIABLES
    pc,                 \* position of listen(): see PcValues
    bridge_contract,    \* self.bridge_contract is not None
    block_range,        \* listen(block_range=...)
    last_scanned_block, \* the checkpoint
    latest_block,       \* local of listen: <<h>>, or <<>> for None
    from_block,         \* local of listen
    to_block,           \* local of listen
    event_filter,       \* the batch the for loop is iterating, else <<>>
    idx,                \* iteration of `for event in event_filter`
    response,           \* the oracle's answer inside _validate_with_oracle
    processed_txs,      \* self.processed_txs
    delay,              \* the argument of the last time.sleep
    cycles,             \* iterations of `while True` started
    \* history variables (observations, not program state)
    h0,                 \* the height the startup query returned
    actions,            \* tx -> calls of _initiate_destination_chain_action
    attempts,           \* tx -> calls of _process_event
    accepted,           \* txs for which _validate_with_oracle returned True
    calls,              \* oracle/action calls of the current batch, in order
    scanned,            \* the ranges of the cycles that reached line 278
    first_fetch,        \* <<from>> of the first get_logs call, else <<>>
    fetched,            \* this cycle's get_logs: "none", "ok" or "fail"
    last_fail,           \* the BlockSource failure not yet followed by a fetch
    logged,  \* what this cycle of listen logged about the height: <<level, record>>
    rejected,  \* history (SpecNoted): <<event, cycle>> of each validation that returned False
    interrupted,  \* history (SpecSignal): where listen was when SIGINT arrived, else "none"
    source_logs,  \* (SpecPair) the logs the source chain holds, by transactionHash
    listeners,  \* (SpecPair) each instance's position and its own processed_txs
    dispatched,  \* history (SpecPair): instance -> tx -> action calls
    steady  \* (LiveSpec) whether BlockSource and the oracle have stopped failing, the height floor h since then, and the failure pending at that point

vars == <<pc, bridge_contract, block_range, last_scanned_block, latest_block,
          from_block, to_block, event_filter, idx, response, processed_txs,
          delay, cycles, h0, actions, attempts, accepted, calls, scanned,
          first_fetch, fetched, last_fail,
          logged,
          rejected,
          interrupted,
          source_logs,
          listeners,
          dispatched,
          steady>>

PcValues == {"start", "poll", "fetch", "process", "validate", "validated",
             "act", "advance", "sleep", "exit"}

\* --------------------------------------------------------------- helpers
Min(a, b) == IF a <= b THEN a ELSE b

\* a startup one block too early: latest - 2
InitialCheckpointTooEarly(h) == h - 2

\* line 245: last_scanned_block = get_latest_block_number() - 1
InitialCheckpoint(h) == h - 1

\* a range that starts on the checkpoint itself
FromBlockOnCheckpoint(last) == last

\* line 259
FromBlock(last) == last + 1

\* line 260
ToBlock(latest, from, range) == Min(latest, from + range)

\* every height taken as nothing new
NoNewBlocksAlways(from, latest) == TRUE

\* the guard of line 262 left out
NoNewBlocksUnchecked(from, latest) == FALSE

\* line 262
NoNewBlocks(from, latest) == from > latest

\* the dedup check left out
AlreadyProcessedNever(tx) == FALSE

\* line 215
AlreadyProcessed(tx) == tx \in processed_txs

\* the action forgets to mark the hash
MarkProcessedForgets(tx) == processed_txs

\* line 208
MarkProcessed(tx) == processed_txs \cup {tx}

\* history: _process_event ran once more for a hash (counted up to twice)
OnceMore(n) == IF n < 2 THEN n + 1 ELSE n

\* the batch iterated from its end
IterPositionReversed(k, n) == n + 1 - k

\* line 275: the k-th iteration of the for loop over n logs takes the k-th log
IterPosition(k, n) == k

\* ---------------------------------------------------- the oracle's answers
\* Bodies of an HTTP answer, by what response.json().get("isValid", False)
\* does with them.
Bodies == {"isValid_true",      \* {"isValid": true}
           "isValid_false",     \* {"isValid": false}
           "isValid_absent",    \* {} : get returns the default False
           "isValid_string",    \* {"isValid": "false"} : a non-empty string
           "not_object",        \* [] or null : .get raises AttributeError
           "not_json"}          \* json() raises a decode error

NoResponse == [transport |-> "none", status_code |-> 0, body |-> "none"]

Responses ==
    {[transport |-> "error", status_code |-> 0, body |-> "none"]}
    \cup {[transport |-> "ok", status_code |-> 200, body |-> b] : b \in Bodies}
    \cup {[transport |-> "ok", status_code |-> 500, body |-> "isValid_true"]}

\* Python's truth value of response.json().get("isValid", False)
Truthy(body) == body \in {"isValid_true", "isValid_string"}

\* lines 157-186: the outcomes _validate_with_oracle can have on answer r:
\* "true" / "false" (returned) or "raise" (an exception other than
\* requests.exceptions.RequestException leaves the function).
_validate_with_oracle(r) ==
    IF ~oracle_url_configured THEN {"true"}
    ELSE IF r.transport = "error" THEN {"false"}
    ELSE IF r.status_code # 200 THEN {"false"}
    ELSE IF r.body = "not_json" THEN {"false", "raise"}
    ELSE IF r.body = "not_object" THEN {"raise"}
    ELSE IF Truthy(r.body) THEN {"true"}
    ELSE {"false"}

\* ------------------------------------------------------- the source chain
\* What get_logs(fromBlock, toBlock) can return: at most MaxBatch logs of
\* the blocks asked for, ascending by block.
Events(from, to) == [transactionHash : TxHashes, blockNumber : from .. to]

Batches(from, to) ==
    {b \in UNION {[1 .. n -> Events(from, to)] : n \in 0 .. MaxBatch} :
        \A i \in 1 .. Len(b) - 1 : b[i].blockNumber <= b[i + 1].blockNumber}

\* two BridgeEventListener objects on the same source chain
Instances == {1, 2}

\* line 125: every instance starts with a processed_txs of its own
\* (fresh: history, the hashes no instance had marked when this one checked)
NewListener == [pc |-> "fetch", idx |-> 1, processed_txs |-> {}, fresh |-> {}]

\* no BlockSource failure pending
NoFail == [kind |-> "none", from |-> 0, to |-> 0, h |-> 0]

\* failures can still happen
NotSteady == [on |-> FALSE, h |-> 0, failed |-> NoFail]

\* no record logged yet in this cycle
NoRecord == <<"none", "none">>


\* ------------------------------------------------------------------ Init
Init ==
    /\ pc = "start"
    /\ bridge_contract \in BOOLEAN
    /\ block_range \in 1 .. MaxRange
    /\ last_scanned_block = 0
    /\ latest_block = <<>>
    /\ from_block = 0
    /\ to_block = 0
    /\ event_filter = <<>>
    /\ idx = 1
    /\ response = NoResponse
    /\ processed_txs = {}
    /\ delay = 0
    /\ cycles = 0
    /\ h0 = 0
    /\ actions = [t \in TxHashes |-> 0]
    /\ attempts = [t \in TxHashes |-> 0]
    /\ accepted = {}
    /\ calls = <<>>
    /\ scanned = <<>>
    /\ first_fetch = <<>>
    /\ fetched = "none"
    /\ last_fail = NoFail
    /\ logged = NoRecord
    /\ rejected = {}
    /\ interrupted = "none"
    /\ source_logs = <<>>
    /\ listeners = [i \in Instances |-> NewListener]
    /\ dispatched = [i \in Instances |-> [t \in TxHashes |-> 0]]
    /\ steady = NotSteady

\* the log the current iteration of the for loop handles
Position == IterPosition(idx, Len(event_filter))
CurrentEvent == event_filter[Position]
CurrentTx == CurrentEvent.transactionHash

\* ------------------------------------------------------- listen: startup
\* lines 236-238
StartNoContract ==
    /\ pc = "start"
    /\ ~bridge_contract
    /\ pc' = "exit"
    /\ UNCHANGED <<bridge_contract, block_range, last_scanned_block,
                   latest_block, from_block, to_block, event_filter, idx,
                   response, processed_txs, delay, cycles, h0, actions,
                   attempts, accepted, calls, scanned, first_fetch, fetched,
                   last_fail,
                   logged,
                   rejected,
                   interrupted,
                   source_logs,
                   listeners,
                   dispatched,
                   steady>>

\* lines 244-248: get_latest_block_number() returned None, None - 1 raises
StartHeightFail ==
    /\ pc = "start"
    /\ bridge_contract
    /\ pc' = "exit"
    /\ UNCHANGED <<bridge_contract, block_range, last_scanned_block,
                   latest_block, from_block, to_block, event_filter, idx,
                   response, processed_txs, delay, cycles, h0, actions,
                   attempts, accepted, calls, scanned, first_fetch, fetched,
                   last_fail,
                   logged,
                   rejected,
                   interrupted,
                   source_logs,
                   listeners,
                   dispatched,
                   steady>>

\* lines 244-245
StartOk ==
    /\ pc = "start"
    /\ bridge_contract
    /\ \E h \in Heights :
          /\ last_scanned_block' = InitialCheckpoint(h)
          /\ h0' = h
    /\ pc' = "poll"
    /\ UNCHANGED <<bridge_contract, block_range, latest_block, from_block,
                   to_block, event_filter, idx, response, processed_txs,
                   delay, cycles, actions, attempts, accepted, calls, scanned,
                   first_fetch, fetched, last_fail,
                   logged,
                   rejected,
                   interrupted,
                   source_logs,
                   listeners,
                   dispatched,
                   steady>>

\* ---------------------------------------------- listen: one scan cycle
\* a failed height query that ends listen() instead of retrying
PollHeightFailAborts ==
    /\ pc = "poll"
    /\ cycles < MaxCycles
    /\ cycles' = cycles + 1
    /\ latest_block' = <<>>
    /\ delay' = poll_interval * 2
    /\ pc' = "exit"
    /\ fetched' = "none"
    /\ calls' = <<>>
    /\ last_fail' = last_fail
    /\ logged' = <<"warning", "no_height">>
    /\ UNCHANGED <<bridge_contract, block_range, last_scanned_block,
                   from_block, to_block, event_filter, idx, response,
                   processed_txs, h0, actions, attempts, accepted, scanned,
                   first_fetch,
                   rejected,
                   interrupted,
                   source_logs,
                   listeners,
                   dispatched,
                   steady>>

\* lines 252-256: the height query failed
PollHeightFail ==
    /\ pc = "poll"
    /\ cycles < MaxCycles
    /\ cycles' = cycles + 1
    /\ latest_block' = <<>>
    /\ delay' = poll_interval * 2
    /\ pc' = "sleep"
    /\ fetched' = "none"
    /\ calls' = <<>>
    /\ last_fail' = IF last_fail.kind = "none"
                    THEN [kind |-> "height",
                          from |-> FromBlock(last_scanned_block),
                          to |-> 0, h |-> 0]
                    ELSE last_fail
    /\ logged' = <<"warning", "no_height">>
    /\ UNCHANGED <<bridge_contract, block_range, last_scanned_block,
                   from_block, to_block, event_filter, idx, response,
                   processed_txs, h0, actions, attempts, accepted, scanned,
                   first_fetch,
                   rejected,
                   interrupted,
                   source_logs,
                   listeners,
                   dispatched,
                   steady>>

\* lines 252-265: a height below from_block, nothing to scan
PollNoNewBlocks ==
    /\ pc = "poll"
    /\ cycles < MaxCycles
    /\ \E h \in Heights :
          /\ latest_block' = <<h>>
          /\ from_block' = FromBlock(last_scanned_block)
          /\ to_block' = ToBlock(h, from_block', block_range)
          /\ NoNewBlocks(from_block', h)
    /\ cycles' = cycles + 1
    /\ delay' = poll_interval
    /\ pc' = "sleep"
    /\ fetched' = "none"
    /\ calls' = <<>>
    /\ logged' = <<"info", "no_new_blocks">>
    /\ UNCHANGED <<bridge_contract, block_range, last_scanned_block,
                   event_filter, idx, response, processed_txs, h0, actions,
                   attempts, accepted, scanned, first_fetch, last_fail,
                   rejected,
                   interrupted,
                   source_logs,
                   listeners,
                   dispatched,
                   steady>>

\* lines 252-267: a range to scan
PollScan ==
    /\ pc = "poll"
    /\ cycles < MaxCycles
    /\ \E h \in Heights :
          /\ latest_block' = <<h>>
          /\ from_block' = FromBlock(last_scanned_block)
          /\ to_block' = ToBlock(h, from_block', block_range)
          /\ ~NoNewBlocks(from_block', h)
    /\ cycles' = cycles + 1
    /\ pc' = "fetch"
    /\ fetched' = "none"
    /\ calls' = <<>>
    /\ logged' = <<"info", "scanning">>
    /\ UNCHANGED <<bridge_contract, block_range, last_scanned_block,
                   event_filter, idx, response, processed_txs, delay, h0,
                   actions, attempts, accepted, scanned, first_fetch,
                   last_fail,
                   rejected,
                   interrupted,
                   source_logs,
                   listeners,
                   dispatched,
                   steady>>

NoteFetch == IF first_fetch = <<>> THEN <<from_block>> ELSE first_fetch

\* a failed fetch that still moves the checkpoint to to_block
FetchFailSkipsRange ==
    /\ pc = "fetch"
    /\ fetched' = "fail"
    /\ first_fetch' = NoteFetch
    /\ last_fail' = [kind |-> "fetch", from |-> from_block, to |-> to_block,
                     h |-> latest_block[1]]
    /\ last_scanned_block' = to_block
    /\ delay' = poll_interval
    /\ pc' = "sleep"
    /\ UNCHANGED <<bridge_contract, block_range, latest_block, from_block,
                   to_block, event_filter, idx, response, processed_txs,
                   cycles, h0, actions, attempts, accepted, calls, scanned,
                   logged,
                   rejected,
                   interrupted,
                   source_logs,
                   listeners,
                   dispatched,
                   steady>>

\* lines 269-272, 280-285: get_logs raised
FetchFail ==
    /\ pc = "fetch"
    /\ fetched' = "fail"
    /\ first_fetch' = NoteFetch
    /\ last_fail' = [kind |-> "fetch", from |-> from_block, to |-> to_block,
                     h |-> latest_block[1]]
    /\ delay' = poll_interval
    /\ pc' = "sleep"
    /\ UNCHANGED <<bridge_contract, block_range, last_scanned_block,
                   latest_block, from_block, to_block, event_filter, idx,
                   response, processed_txs, cycles, h0, actions, attempts,
                   accepted, calls, scanned,
                   logged,
                   rejected,
                   interrupted,
                   source_logs,
                   listeners,
                   dispatched,
                   steady>>

\* lines 269-275: get_logs returned a batch
FetchOk ==
    /\ pc = "fetch"
    /\ \E b \in Batches(from_block, to_block) :
          /\ event_filter' = b
          /\ pc' = IF b = <<>> THEN "advance" ELSE "process"
    /\ idx' = 1
    /\ fetched' = "ok"
    /\ first_fetch' = NoteFetch
    /\ last_fail' = NoFail
    /\ UNCHANGED <<bridge_contract, block_range, last_scanned_block,
                   latest_block, from_block, to_block, response,
                   processed_txs, delay, cycles, h0, actions, attempts,
                   accepted, calls, scanned,
                   logged,
                   rejected,
                   interrupted,
                   source_logs,
                   listeners,
                   dispatched,
                   steady>>

\* the for loop left after its first log
AfterEventBreaks == "advance"

\* line 275: on to the next log of the batch, or out of the loop
AfterEvent == IF idx < Len(event_filter) THEN "process" ELSE "advance"

\* lines 214-217: _process_event on a hash already in processed_txs
ProcessSkip ==
    /\ pc = "process"
    /\ AlreadyProcessed(CurrentTx)
    /\ attempts' = [attempts EXCEPT ![CurrentTx] = OnceMore(@)]
    /\ pc' = AfterEvent
    /\ idx' = idx + 1
    /\ UNCHANGED <<bridge_contract, block_range, last_scanned_block,
                   latest_block, from_block, to_block, event_filter,
                   response, processed_txs, delay, cycles, h0, actions,
                   accepted, calls, scanned, first_fetch, fetched, last_fail,
                   logged,
                   rejected,
                   interrupted,
                   source_logs,
                   listeners,
                   dispatched,
                   steady>>

\* lines 214-222: _process_event on a new hash
ProcessNew ==
    /\ pc = "process"
    /\ ~AlreadyProcessed(CurrentTx)
    /\ attempts' = [attempts EXCEPT ![CurrentTx] = OnceMore(@)]
    /\ pc' = "validate"
    /\ UNCHANGED <<bridge_contract, block_range, last_scanned_block,
                   latest_block, from_block, to_block, event_filter, idx,
                   response, processed_txs, delay, cycles, h0, actions,
                   accepted, calls, scanned, first_fetch, fetched, last_fail,
                   logged,
                   rejected,
                   interrupted,
                   source_logs,
                   listeners,
                   dispatched,
                   steady>>

\* lines 157-174: _validate_with_oracle posts the event to the oracle
OracleRequest ==
    /\ pc = "validate"
    /\ IF oracle_url_configured
       THEN /\ response' \in Responses
            /\ calls' = Append(calls, <<Position, "validate">>)
       ELSE /\ response' = NoResponse
            /\ calls' = calls
    /\ pc' = "validated"
    /\ UNCHANGED <<bridge_contract, block_range, last_scanned_block,
                   latest_block, from_block, to_block, event_filter, idx,
                   processed_txs, delay, cycles, h0, actions, attempts,
                   accepted, scanned, first_fetch, fetched, last_fail,
                   logged,
                   rejected,
                   interrupted,
                   source_logs,
                   listeners,
                   dispatched,
                   steady>>

\* lines 177-179, 222-224: the oracle's answer is taken as valid
ValidateTrue ==
    /\ pc = "validated"
    /\ "true" \in _validate_with_oracle(response)
    /\ accepted' = accepted \cup {CurrentTx}
    /\ response' = NoResponse
    /\ pc' = "act"
    /\ UNCHANGED <<bridge_contract, block_range, last_scanned_block,
                   latest_block, from_block, to_block, event_filter, idx,
                   processed_txs, delay, cycles, h0, actions, attempts,
                   calls, scanned, first_fetch, fetched, last_fail,
                   logged,
                   rejected,
                   interrupted,
                   source_logs,
                   listeners,
                   dispatched,
                   steady>>

\* lines 180-186, 225-226: validation failed, no action
ValidateFalse ==
    /\ pc = "validated"
    /\ "false" \in _validate_with_oracle(response)
    /\ response' = NoResponse
    /\ pc' = AfterEvent
    /\ idx' = idx + 1
    /\ UNCHANGED <<bridge_contract, block_range, last_scanned_block,
                   latest_block, from_block, to_block, event_filter,
                   processed_txs, delay, cycles, h0, actions, attempts,
                   accepted, calls, scanned, first_fetch, fetched, last_fail,
                   logged,
                   rejected,
                   interrupted,
                   source_logs,
                   listeners,
                   dispatched,
                   steady>>

\* line 177, then 282-285: response.json() or .get raised; the exception
\* leaves _process_event and the for loop and is caught by the while loop
ValidateRaise ==
    /\ pc = "validated"
    /\ "raise" \in _validate_with_oracle(response)
    /\ response' = NoResponse
    /\ delay' = poll_interval
    /\ pc' = "sleep"
    /\ event_filter' = <<>>
    /\ idx' = 1
    /\ UNCHANGED <<bridge_contract, block_range, last_scanned_block,
                   latest_block, from_block, to_block, 
                   processed_txs, cycles, h0, actions, attempts, accepted,
                   calls, scanned, first_fetch, fetched, last_fail,
                   logged,
                   rejected,
                   interrupted,
                   source_logs,
                   listeners,
                   dispatched,
                   steady>>

\* lines 188-208: _initiate_destination_chain_action. Its body formats and
\* logs fields the ABI decoding of a TokensLocked log always supplies
\* (recipient: bytes, amount: uint256) and then marks the hash: it has no
\* failure return and no statement that raises on such a log.
Act ==
    /\ pc = "act"
    /\ actions' = [actions EXCEPT ![CurrentTx] = @ + 1]
    /\ calls' = Append(calls, <<Position, "act">>)
    /\ processed_txs' = MarkProcessed(CurrentTx)
    /\ pc' = AfterEvent
    /\ idx' = idx + 1
    /\ UNCHANGED <<bridge_contract, block_range, last_scanned_block,
                   latest_block, from_block, to_block, event_filter,
                   response, delay, cycles, h0, attempts, accepted, scanned,
                   first_fetch, fetched, last_fail,
                   logged,
                   rejected,
                   interrupted,
                   source_logs,
                   listeners,
                   dispatched,
                   steady>>

\* lines 278, 285: the batch is done, the checkpoint moves
Advance ==
    /\ pc = "advance"
    /\ last_scanned_block' = to_block
    /\ scanned' = Append(scanned, <<from_block, to_block>>)
    /\ delay' = poll_interval
    /\ pc' = "sleep"
    /\ event_filter' = <<>>
    /\ idx' = 1
    /\ UNCHANGED <<bridge_contract, block_range, latest_block, from_block,
                   to_block,  response, processed_txs,
                   cycles, h0, actions, attempts, accepted, calls,
                   first_fetch, fetched, last_fail,
                   logged,
                   rejected,
                   interrupted,
                   source_logs,
                   listeners,
                   dispatched,
                   steady>>

\* lines 255, 264, 285: time.sleep returns, back to the top of the loop
Wake ==
    /\ pc = "sleep"
    /\ pc' = "poll"
    /\ delay' = 0
    /\ logged' = NoRecord
    /\ UNCHANGED <<bridge_contract, block_range, last_scanned_block,
                   latest_block, from_block, to_block, event_filter, idx,
                   response, processed_txs, cycles, h0, actions,
                   attempts, accepted, calls, scanned, first_fetch, fetched,
                   last_fail,
                   rejected,
                   interrupted,
                   source_logs,
                   listeners,
                   dispatched,
                   steady>>

Next ==
    \/ StartNoContract
    \/ StartHeightFail
    \/ StartOk
    \/ PollHeightFail
    \/ PollNoNewBlocks
    \/ PollScan
    \/ FetchFail
    \/ FetchOk
    \/ ProcessSkip
    \/ ProcessNew
    \/ OracleRequest
    \/ ValidateTrue
    \/ ValidateFalse
    \/ ValidateRaise
    \/ Act
    \/ Advance
    \/ Wake

Spec == Init /\ [][Next]_vars

\* ------------------------------------------- the scan with rejections noted
\* lines 180-186, 225-226: ValidateFalse, keeping a record of the event and
\* of the cycle that rejected it
ValidateFalseNoted ==
    /\ pc = "validated"
    /\ "false" \in _validate_with_oracle(response)
    /\ response' = NoResponse
    /\ pc' = AfterEvent
    /\ idx' = idx + 1
    /\ rejected' = rejected \cup {<<CurrentEvent, cycles>>}
    /\ UNCHANGED <<bridge_contract, block_range, last_scanned_block,
                   latest_block, from_block, to_block, event_filter,
                   processed_txs, delay, cycles, h0, actions, attempts,
                   accepted, calls, scanned, first_fetch, fetched, last_fail,
                   logged,
                   interrupted,
                   source_logs,
                   listeners,
                   dispatched,
                   steady>>

NextNoted ==
    \/ StartNoContract
    \/ StartHeightFail
    \/ StartOk
    \/ PollHeightFail
    \/ PollNoNewBlocks
    \/ PollScan
    \/ FetchFail
    \/ FetchOk
    \/ ProcessSkip
    \/ ProcessNew
    \/ OracleRequest
    \/ ValidateTrue
    \/ ValidateFalseNoted
    \/ ValidateRaise
    \/ Act
    \/ Advance
    \/ Wake

SpecNoted == Init /\ [][NextNoted]_vars

\* ------------------------------------------------- the scan under SIGINT
\* lines 250-285: `while True` reads no shutdown flag, and neither
\* `except Exception` (lines 280-283) nor `except RequestException`
\* (line 183) catches KeyboardInterrupt: the signal ends listen() at the
\* statement it is executing.
Interrupt ==
    /\ pc # "exit"
    /\ interrupted' = pc
    /\ pc' = "exit"
    /\ UNCHANGED <<bridge_contract, block_range, last_scanned_block,
                   latest_block, from_block, to_block, event_filter, idx,
                   response, processed_txs, delay, cycles, h0, actions,
                   attempts, accepted, calls, scanned, first_fetch, fetched,
                   last_fail, logged, rejected,
                   source_logs,
                   listeners,
                   dispatched,
                   steady>>

NextSignal ==
    \/ Next
    \/ Interrupt

SpecSignal == Init /\ [][NextSignal]_vars

\* ------------------------------------- two instances on one source chain
\* the variables of the single listener above
single == <<pc, bridge_contract, block_range, last_scanned_block,
            latest_block, from_block, to_block, event_filter, idx, response,
            processed_txs, delay, cycles, h0, actions, attempts, accepted,
            calls, scanned, first_fetch, fetched, last_fail, logged, rejected,
            interrupted, steady>>

\* the source chain emits TokensLocked logs in the range both instances scan
Emit ==
    /\ source_logs = <<>>
    /\ source_logs' \in UNION {[1 .. n -> TxHashes] : n \in 1 .. MaxBatch}
    /\ UNCHANGED <<single, listeners, dispatched>>

\* the log instance i's for loop is at
InstTx(i) == source_logs[listeners[i].idx]

\* line 275 of instance i: the next log, or out of the loop (line 278)
InstAfterEvent(i) ==
    IF listeners[i].idx < Len(source_logs) THEN "process" ELSE "done"

\* an instance without a dedup check
InstAlreadyProcessedNever(i, tx) == FALSE

\* line 215 of instance i: the check reads self.processed_txs only
InstAlreadyProcessed(i, tx) == tx \in listeners[i].processed_txs

\* the hashes some instance has marked (line 208)
MarkedByAny == UNION {listeners[j].processed_txs : j \in Instances}

\* lines 269-275 of instance i: get_logs returns the chain's logs
InstFetch(i) ==
    /\ listeners[i].pc = "fetch"
    /\ source_logs # <<>>
    /\ listeners' = [listeners EXCEPT ![i].pc = "process", ![i].idx = 1]
    /\ UNCHANGED <<single, source_logs, dispatched>>

\* lines 214-217 of instance i
InstProcessSkip(i) ==
    /\ listeners[i].pc = "process"
    /\ InstAlreadyProcessed(i, InstTx(i))
    /\ listeners' = [listeners EXCEPT ![i].pc = InstAfterEvent(i),
                                      ![i].idx = @ + 1]
    /\ UNCHANGED <<single, source_logs, dispatched>>

\* lines 214-222 of instance i
InstProcessNew(i) ==
    /\ listeners[i].pc = "process"
    /\ ~InstAlreadyProcessed(i, InstTx(i))
    /\ listeners' =
          [listeners EXCEPT
              ![i].pc = "validate",
              ![i].fresh = IF InstTx(i) \in MarkedByAny
                           THEN @ \ {InstTx(i)}
                           ELSE @ \cup {InstTx(i)}]
    /\ UNCHANGED <<single, source_logs, dispatched>>

\* lines 222-226, 282-285 of instance i: the oracle's answer is taken as
\* valid, or as invalid, or raises and the range is scanned again
InstValidate(i) ==
    /\ listeners[i].pc = "validate"
    /\ \E r \in Responses : \E o \in _validate_with_oracle(r) :
          listeners' =
             [listeners EXCEPT
                 ![i].pc = CASE o = "true" -> "act"
                             [] o = "false" -> InstAfterEvent(i)
                             [] OTHER -> "fetch",
                 ![i].idx = CASE o = "true" -> @
                              [] o = "false" -> @ + 1
                              [] OTHER -> 1]
    /\ UNCHANGED <<single, source_logs, dispatched>>

\* lines 188-208 of instance i
InstAct(i) ==
    /\ listeners[i].pc = "act"
    /\ dispatched' = [dispatched EXCEPT ![i][InstTx(i)] = @ + 1]
    /\ listeners' =
          [listeners EXCEPT
              ![i].processed_txs = @ \cup {InstTx(i)},
              ![i].pc = InstAfterEvent(i),
              ![i].idx = @ + 1]
    /\ UNCHANGED <<single, source_logs>>

NextPair ==
    \/ Emit
    \/ \E i \in Instances : InstFetch(i)
    \/ \E i \in Instances : InstProcessSkip(i)
    \/ \E i \in Instances : InstProcessNew(i)
    \/ \E i \in Instances : InstValidate(i)
    \/ \E i \in Instances : InstAct(i)

SpecPair == Init /\ [][NextPair]_vars

\* ---------------------------------------- the scan once failures have ended
\* at the top of the loop (line 250): from here on every height query and
\* every get_logs succeeds, no _process_event raises, and the height stays
\* at or above h, for some h at or above the startup height
BecomeSteady ==
    /\ pc = "poll"
    /\ ~steady.on
    /\ \E h \in h0 .. MaxHeight :
          steady' = [on |-> TRUE, h |-> h, failed |-> last_fail]
    /\ UNCHANGED <<pc, bridge_contract, block_range, last_scanned_block,
                   latest_block, from_block, to_block, event_filter, idx,
                   response, processed_txs, delay, cycles, h0, actions,
                   attempts, accepted, calls, scanned, first_fetch, fetched,
                   last_fail, logged, rejected, interrupted, source_logs,
                   listeners, dispatched>>

\* lines 252-265 with a height at or above h; the history counter of cycles
\* stops at MaxCycles, the loop does not
SteadyPollNoNewBlocks ==
    /\ pc = "poll"
    /\ steady.on
    /\ \E h \in steady.h .. MaxHeight :
          /\ latest_block' = <<h>>
          /\ from_block' = FromBlock(last_scanned_block)
          /\ to_block' = ToBlock(h, from_block', block_range)
          /\ NoNewBlocks(from_block', h)
    /\ cycles' = IF cycles < MaxCycles THEN cycles + 1 ELSE cycles
    /\ delay' = poll_interval
    /\ pc' = "sleep"
    /\ fetched' = "none"
    /\ calls' = <<>>
    /\ logged' = <<"info", "no_new_blocks">>
    /\ UNCHANGED <<bridge_contract, block_range, last_scanned_block,
                   event_filter, idx, response, processed_txs, h0, actions,
                   attempts, accepted, scanned, first_fetch, last_fail,
                   rejected,
                   interrupted,
                   source_logs,
                   listeners,
                   dispatched,
                   steady>>

\* lines 252-267 with a height at or above h
SteadyPollScan ==
    /\ pc = "poll"
    /\ steady.on
    /\ \E h \in steady.h .. MaxHeight :
          /\ latest_block' = <<h>>
          /\ from_block' = FromBlock(last_scanned_block)
          /\ to_block' = ToBlock(h, from_block', block_range)
          /\ ~NoNewBlocks(from_block', h)
    /\ cycles' = IF cycles < MaxCycles THEN cycles + 1 ELSE cycles
    /\ pc' = "fetch"
    /\ fetched' = "none"
    /\ calls' = <<>>
    /\ logged' = <<"info", "scanning">>
    /\ UNCHANGED <<bridge_contract, block_range, last_scanned_block,
                   event_filter, idx, response, processed_txs, delay, h0,
                   actions, attempts, accepted, scanned, first_fetch,
                   last_fail,
                   rejected,
                   interrupted,
                   source_logs,
                   listeners,
                   dispatched,
                   steady>>

\* lines 157-174: an answer that _validate_with_oracle returns on
SteadyOracleRequest ==
    /\ pc = "validate"
    /\ response' \in {r \in Responses : _validate_with_oracle(r) # {"raise"}}
    /\ calls' = Append(calls, <<Position, "validate">>)
    /\ pc' = "validated"
    /\ UNCHANGED <<bridge_contract, block_range, last_scanned_block,
                   latest_block, from_block, to_block, event_filter, idx,
                   processed_txs, delay, cycles, h0, actions, attempts,
                   accepted, scanned, first_fetch, fetched, last_fail, logged,
                   rejected, interrupted, source_logs, listeners, dispatched,
                   steady>>

\* before the point of BecomeSteady: startup, and cycles that fail at the
\* height query or at get_logs, or find no new block; after it: cycles in
\* which nothing fails
NextLive ==
    \/ ~steady.on /\ StartNoContract
    \/ ~steady.on /\ StartHeightFail
    \/ ~steady.on /\ StartOk
    \/ ~steady.on /\ PollHeightFail
    \/ ~steady.on /\ PollNoNewBlocks
    \/ ~steady.on /\ PollScan
    \/ ~steady.on /\ FetchFail
    \/ ~steady.on /\ Wake
    \/ BecomeSteady
    \/ steady.on /\ SteadyPollNoNewBlocks
    \/ steady.on /\ SteadyPollScan
    \/ steady.on /\ FetchOk
    \/ steady.on /\ ProcessSkip
    \/ steady.on /\ ProcessNew
    \/ steady.on /\ SteadyOracleRequest
    \/ steady.on /\ ValidateTrue
    \/ steady.on /\ ValidateFalse
    \/ steady.on /\ Act
    \/ steady.on /\ Advance
    \/ steady.on /\ Wake

\* the loop is one thread whose every call returns (time.sleep, and
\* requests.post under its timeout): the next step is always taken
LiveSpec == Init /\ [][NextLive]_vars /\ WF_vars(NextLive)

TypeOK ==
    /\ pc \in PcValues
    /\ processed_txs \subseteq TxHashes
    /\ Len(latest_block) <= 1

\* ================================================================ claims
\* no _process_event call is in flight
Quiescent == pc \notin {"validate", "validated", "act"}

\* listen() is past its startup and running the loop
Running == pc \notin {"start", "exit"}

\* ---------------------------------------------------------------- C1
\* C1: over any sequence of scan cycles, whatever way they end (height-query
\* failure, fetch failure, rejection, an exception while an event is
\* processed and the same range scanned again), the destination action is
\* invoked at most once for each source txHash.
ActionAtMostOncePerTx == \A t \in TxHashes : actions[t] <= 1

\* a hash acted on in a cycle that an exception then aborted (no range was
\* ever completed), met again in the re-scan and skipped
ActionAtMostOncePerTxWitness ==
    /\ pc = "advance"
    /\ scanned = <<>>
    /\ Len(event_filter) = 1
    /\ calls = <<>>
    /\ \E t \in TxHashes : actions[t] = 1 /\ attempts[t] = 2

\* ---------------------------------------------------------------- C2
\* C2 as stated: every event processed twice (two logs with one txHash) has
\* exactly one ActionExecutor invocation.
IdempotenceExactlyOne ==
    \A t \in TxHashes : (Quiescent /\ attempts[t] = 2) => actions[t] = 1

\* C2 amended: an event processed twice has at most one ActionExecutor
\* invocation: exactly one when _validate_with_oracle returned True in one
\* of the processings, none when it rejected or failed in each.
IdempotenceAtMostOne ==
    \A t \in TxHashes :
        (Quiescent /\ attempts[t] = 2) =>
            /\ actions[t] <= 1
            /\ actions[t] = 1 <=> t \in accepted

\* two logs of one batch with the same hash: the first accepted and acted
\* on, the second skipped
IdempotenceAtMostOneWitness ==
    /\ pc = "advance"
    /\ Len(event_filter) = 2
    /\ event_filter[1].transactionHash = event_filter[2].transactionHash
    /\ calls = <<<<1, "validate">>, <<1, "act">>>>
    /\ attempts[event_filter[1].transactionHash] = 2
    /\ actions[event_filter[1].transactionHash] = 1

\* ---------------------------------------------------------------- C3
\* What the claim counts as a rejection or failure of the Validator:
\* transport error or timeout, a status other than 200, a body that is
\* malformed or whose isValid is not true.
Rejects(r) ==
    \/ r.transport = "error"
    \/ r.status_code # 200
    \/ r.body # "isValid_true"

\* C3: fail-closed validation: when the Validator rejects or fails for an
\* event, the ActionExecutor is not invoked for it in that processing
\* attempt and its txHash is not added to ProcessedSet.
FailClosedValidation ==
    [][(pc = "validated" /\ Rejects(response)) =>
          /\ pc' # "act"
          /\ actions' = actions
          /\ processed_txs' = processed_txs]_vars

\* ---------------------------------------------------------------- C4
\* C4: the checkpoint is non-decreasing in every step after startup, also
\* when the reported height is lower than an earlier one or than the
\* checkpoint.
CheckpointMonotonic ==
    [][pc # "start" => last_scanned_block' >= last_scanned_block]_vars

\* a cycle ended on a height below a checkpoint that had advanced
CheckpointMonotonicWitness ==
    /\ pc = "sleep"
    /\ scanned # <<>>
    /\ latest_block # <<>>
    /\ latest_block[1] < last_scanned_block

\* ---------------------------------------------------------------- C5
\* C5: the ranges of the successful cycles do not overlap and leave no gap:
\* the first starts at H0, each next one at the previous to + 1.
RangeContiguity ==
    \A i \in 1 .. Len(scanned) :
        /\ scanned[i][1] <= scanned[i][2]
        /\ scanned[i][1] = IF i = 1 THEN h0 ELSE scanned[i - 1][2] + 1

\* two completed ranges, the first of more than one block, with a failed
\* cycle between or before them
RangeContiguityWitness ==
    /\ Len(scanned) = 2
    /\ scanned[1][1] < scanned[1][2]
    /\ cycles = 3

\* ---------------------------------------------------------------- C6
\* C6: within one fetched batch every Validator and ActionExecutor call for
\* an earlier log happens before any such call for a later log.
BatchOrdering ==
    \A i, j \in 1 .. Len(calls) : calls[i][1] < calls[j][1] => i < j

\* both logs of a batch validated and acted on
BatchOrderingWitness ==
    calls = <<<<1, "validate">>, <<1, "act">>, <<2, "validate">>, <<2, "act">>>>

\* ---------------------------------------------------------------- C7
\* C7: a log whose txHash is in ProcessedSet is discarded without a
\* Validator call, without an ActionExecutor call and without a change of
\* ProcessedSet.
DedupPrecedesValidation ==
    /\ [](pc \in {"validate", "validated", "act"} =>
            CurrentTx \notin processed_txs)
    /\ [][(pc = "process" /\ CurrentTx \in processed_txs) =>
             /\ pc' \in {"process", "advance"}
             /\ idx' = idx + 1
             /\ calls' = calls
             /\ actions' = actions
             /\ processed_txs' = processed_txs]_vars

\* a hash acted on in a completed range, met again in a later range and
\* discarded
DedupPrecedesValidationWitness ==
    /\ pc = "advance"
    /\ scanned # <<>>
    /\ Len(event_filter) = 1
    /\ calls = <<>>
    /\ event_filter[1].transactionHash \in processed_txs
    /\ attempts[event_filter[1].transactionHash] = 2

\* ---------------------------------------------------------------- C8
\* a step in which the height query or get_logs of the cycle fails
HeightQueryFails == pc = "poll" /\ pc' = "sleep" /\ latest_block' = <<>>
LogFetchFails == pc = "fetch" /\ pc' = "sleep"

\* the failure leaves checkpoint and ProcessedSet alone, and the cycle made
\* no Validator or ActionExecutor call
FailureLeavesState ==
    (HeightQueryFails \/ LogFetchFails) =>
        /\ last_scanned_block' = last_scanned_block
        /\ processed_txs' = processed_txs
        /\ actions' = actions
        /\ attempts' = attempts
        /\ calls' = <<>>

\* C8 as stated: ... and the next cycle that reaches the fetch uses the same
\* from, and the same [from,to] when the reported height is the same or at
\* least from + window.
RetryIdenticalRange ==
    /\ [][FailureLeavesState]_vars
    /\ []((pc = "fetch" /\ last_fail.kind # "none") =>
            /\ from_block = last_fail.from
            /\ (/\ last_fail.kind = "fetch"
                /\ \/ latest_block[1] = last_fail.h
                   \/ latest_block[1] >= from_block + block_range)
               => to_block = last_fail.to)

\* C8 amended: ... the same [from,to] when the reported height is the same,
\* or when it is at least from + window and the height of the failed cycle
\* was at least from + window too.
RetrySameFrom ==
    /\ [][FailureLeavesState]_vars
    /\ []((pc = "fetch" /\ last_fail.kind # "none") =>
            /\ from_block = last_fail.from
            /\ (/\ last_fail.kind = "fetch"
                /\ \/ latest_block[1] = last_fail.h
                   \/ /\ latest_block[1] >= from_block + block_range
                      /\ last_fail.h >= from_block + block_range)
               => to_block = last_fail.to)

\* a fetch failed, and the next cycle, at another height, is about to fetch
\* the same window-clamped range
RetrySameFromWitness ==
    /\ pc = "fetch"
    /\ last_fail.kind = "fetch"
    /\ latest_block[1] # last_fail.h
    /\ latest_block[1] >= from_block + block_range
    /\ last_fail.h >= from_block + block_range
    /\ to_block = last_fail.to

\* ---------------------------------------------------------------- C9
\* C9: the checkpoint is initialized to H0 - 1, the first range fetched
\* starts at H0, and no get_logs call asks for a block below H0.
InitializationAtH0 ==
    /\ (Running /\ scanned = <<>>) => last_scanned_block = h0 - 1
    /\ first_fetch # <<>> => first_fetch[1] = h0
    /\ pc = "fetch" => from_block >= h0

\* started above block 0, with the first range fetched and completed
InitializationAtH0Witness ==
    /\ h0 > 0
    /\ first_fetch = <<h0>>
    /\ Len(scanned) = 1
    /\ pc = "fetch"

\* ---------------------------------------------------------------- C10
\* the cycle's height is at or above from and inside the window
HeightInWindow ==
    /\ latest_block # <<>>
    /\ from_block <= latest_block[1]
    /\ latest_block[1] <= from_block + block_range - 1

\* C10: in a cycle whose height H is above the checkpoint and inside the
\* window, the range is [checkpoint + 1, H], and once the fetch has
\* succeeded the cycle ends with the checkpoint at H, whatever the number of
\* events.
ClampByHeightAndAdvance ==
    /\ (pc = "fetch" /\ HeightInWindow) =>
          /\ from_block = last_scanned_block + 1
          /\ to_block = latest_block[1]
    /\ (pc = "sleep" /\ fetched = "ok" /\ HeightInWindow) =>
          last_scanned_block = latest_block[1]

\* ---------------------------------------------------------------- C11
\* C11: in every cycle that fetches, from = checkpoint + 1 and
\* to = min(H, from + maxRange - 1), so from <= to <= H and one fetch covers
\* at most maxRange blocks.
WindowBound ==
    pc = "fetch" =>
        /\ from_block = last_scanned_block + 1
        /\ to_block = Min(latest_block[1], from_block + block_range - 1)
        /\ from_block <= to_block
        /\ to_block <= latest_block[1]
        /\ to_block - from_block + 1 <= block_range

\* ---------------------------------------------------------------- C12
\* C12: the checkpoint is below the range while logs of it are in the
\* pipeline, and it moves to `to` only at line 278, after a successful
\* fetch and after the last log of the batch has left the pipeline.
NoRangeMarkedWhilePending ==
    /\ [](pc \in {"process", "validate", "validated", "act"} =>
            last_scanned_block < from_block)
    /\ [][(pc # "start" /\ last_scanned_block' # last_scanned_block) =>
             /\ pc = "advance"
             /\ fetched = "ok"
             /\ idx = Len(event_filter) + 1
             /\ last_scanned_block' = to_block]_vars

\* a range marked scanned after both logs of its batch met the oracle
NoRangeMarkedWhilePendingWitness ==
    /\ pc = "sleep"
    /\ fetched = "ok"
    /\ last_scanned_block = to_block
    /\ calls # <<>>
    /\ calls[1][1] = 1
    /\ calls[Len(calls)][1] = 2

\* ---------------------------------------------------------------- C13
\* C13: a txHash is in ProcessedSet only if the Validator accepted a log
\* with that hash and the ActionExecutor then ran for it; the hash is
\* inserted by the action's step alone and nothing is ever removed.
ProcessedSetMembership ==
    /\ [](/\ processed_txs \subseteq accepted
          /\ \A t \in processed_txs : actions[t] >= 1)
    /\ [][accepted' # accepted =>
             (pc = "validated" /\ ~Rejects(response))]_vars
    /\ [][processed_txs' # processed_txs =>
             /\ pc = "act"
             /\ processed_txs' = processed_txs \cup {CurrentTx}
             /\ actions'[CurrentTx] = actions[CurrentTx] + 1]_vars

\* ---------------------------------------------------------------- C14
\* C14: a failure in validating or acting on one log is an outcome of that
\* log alone: the for loop goes on with the next log, and the cycle that
\* fetched ends with the checkpoint at `to`.
PerEventFaultIsolation ==
    /\ [][(pc = "validated" \/ pc = "act") =>
             pc' \in {"act", "process", "advance"}]_vars
    /\ []((pc = "sleep" /\ fetched = "ok") => last_scanned_block = to_block)

\* ---------------------------------------------------------------- C15
\* C15: an event whose validation returned False (rejected, or failed
\* transiently) does not block the scan: the cycle that rejected it ends
\* with the checkpoint at to_block; and it is not retried: in no later
\* cycle is the validator or the action called again for that event.
TerminalRejection ==
    /\ (pc = "sleep" /\ \E r \in rejected : r[2] = cycles)
          => last_scanned_block = to_block
    /\ pc \in {"validate", "act"}
          => \A r \in rejected : r[1] = CurrentEvent => r[2] = cycles

\* ---------------------------------------------------------------- C16
\* C16: whenever the height query returns a height strictly below the
\* stored checkpoint, the cycle reports it as a warning (and so not as the
\* ordinary "no new blocks" record of H = checkpoint), fetches nothing and
\* leaves the checkpoint unchanged.
ReorgDetection ==
    [][(/\ pc = "poll"
        /\ latest_block' # <<>>
        /\ latest_block'[1] < last_scanned_block)
       => /\ logged'[1] = "warning"
          /\ logged' # <<"info", "no_new_blocks">>
          /\ pc' = "sleep"
          /\ fetched' = "none"
          /\ last_scanned_block' = last_scanned_block]_vars

\* ---------------------------------------------------------------- C17
\* a validation that does not lead to the action
ValidationFails == pc = "validated" /\ pc' # "act"

\* C17: listen() ends only at startup (no contract, or no initial height),
\* before any cycle, fetch, validation or action; after startup no failure
\* of a height query, a fetch, the oracle or the action ends the loop: it
\* waits and goes back to the top.
OnlyFatalAtStartup ==
    /\ [](pc = "exit" =>
            /\ cycles = 0
            /\ first_fetch = <<>>
            /\ calls = <<>>
            /\ \A t \in TxHashes : attempts[t] = 0 /\ actions[t] = 0)
    /\ [][pc' = "exit" => pc = "start"]_vars
    /\ [][(HeightQueryFails \/ LogFetchFails \/ ValidationFails) =>
             pc' \in {"sleep", "process", "advance"}]_vars
    /\ [](pc = "sleep" => ENABLED Wake)

\* back at the top of the loop after a fetch had failed
OnlyFatalAtStartupWitness ==
    /\ pc = "poll"
    /\ cycles >= 2
    /\ last_fail.kind = "fetch"
\* ---------------------------------------------------------------- C18
\* C18: two instances without mutual exclusion are unsafe. Each instance's
\* dedup keeps its own dispatches to one per txHash and its mark is its own
\* (a hash is in an instance's processed_txs exactly when that instance
\* dispatched it); an instance that passed its check and got a valid answer
\* stays committed to the action whatever the other instance marks, so both
\* can dispatch the same txHash (the witness below).
TwoInstancesUnsafe ==
    /\ [](\A i \in Instances : \A t \in TxHashes :
             /\ dispatched[i][t] <= 1
             /\ dispatched[i][t] = 1 <=> t \in listeners[i].processed_txs)
    /\ [][\A i \in Instances :
             listeners[i].pc = "act" =>
                \/ /\ listeners'[i].pc = "act"
                   /\ listeners'[i].idx = listeners[i].idx
                \/ dispatched'[i][InstTx(i)] = dispatched[i][InstTx(i)] + 1]_vars

\* double dispatch: both instances called the action for one txHash, each
\* having checked its dedup state before any instance had marked the hash
TwoInstancesUnsafeWitness ==
    \E t \in TxHashes : \A i \in Instances :
        /\ dispatched[i][t] = 1
        /\ t \in listeners[i].fresh

\* ---------------------------------------------------------------- C19
\* C19: once the shutdown signal is raised, listen exits only between
\* steps, after any in-flight per-event validation or action has finished:
\* it is never stopped while _process_event is validating or acting.
CooperativeShutdown ==
    interrupted # "none" => interrupted \notin {"validate", "validated", "act"}
\* ---------------------------------------------------------------- C20
\* every block of a .. b lies in a range whose scan completed (line 278)
Covered(a, b) ==
    \A x \in a .. b :
        \E k \in DOMAIN scanned : scanned[k][1] <= x /\ x <= scanned[k][2]

\* once failures have ended and the height stays at or above h, the
\* checkpoint eventually is at or above h
CheckpointReachesFloor ==
    steady.on ~> (steady.on /\ last_scanned_block >= steady.h)

\* C20 as stated: the checkpoint eventually is at or above h, and the whole
\* range whose fetch had failed is eventually scanned.
ScanProgressWholeRange ==
    /\ CheckpointReachesFloor
    /\ (steady.on /\ steady.failed.kind = "fetch")
          ~> Covered(steady.failed.from, steady.failed.to)

\* C20, amended: the checkpoint eventually is at or above h, and the range
\* whose fetch had failed is eventually scanned from its first block up to
\* h (its blocks above h only if the height reaches them again).
ScanProgress ==
    /\ CheckpointReachesFloor
    /\ (steady.on /\ steady.failed.kind = "fetch")
          ~> Covered(steady.failed.from, Min(steady.failed.to, steady.h))

\* a fetch failed, failures ended with a floor above the startup height and
\* inside the failed range, and the scan has caught up with the floor
ScanProgressWitness ==
    /\ steady.on
    /\ steady.failed.kind = "fetch"
    /\ steady.h > h0
    /\ steady.failed.from <= steady.h
    /\ last_scanned_block >= steady.h
    /\ Covered(steady.failed.from, Min(steady.failed.to, steady.h))

====
